---- MODULE Spec2Model ----
(***************************************************************************)
(* A model of aroma.py (ICA-AROMA): the feature extraction, the            *)
(* classification of the components, the classification report and the     *)
(* orchestration of one run (run_aroma) around the external FSL tools.     *)
(*                                                                         *)
(* Numbers.  Feature scores and sums are real numbers in the program.      *)
(* Here a score is an exact fraction <<n, d>> (n >= 0, d > 0) and every    *)
(* comparison is made by cross-multiplication, so a strict test stays      *)
(* strict on the boundary.  The repetition time t_r is kept in tenths of   *)
(* a second (0.5 s is 5, 10 s is 100).                                     *)
(*                                                                         *)
(* Arrays.  A rank-1 numpy array of length N is a sequence of length N;    *)
(* the element with (0-based) index i is at position i + 1.  A matrix is   *)
(* known by its shape, a sequence of dimensions.                           *)
(***************************************************************************)
EXTENDS Integers, Sequences, FiniteSets, TLC

VARIABLES
    pc,                 \* position of the running function
    error,              \* NoError, or <<function, exception>> that ended the run
    t_r,                \* run_aroma: repetition time, in tenths of a second
    denoise_type,       \* run_aroma: requested denoising
    dim,                \* run_aroma: dimensionality of the ICA
    melodic_dir,        \* run_aroma: "None", "valid" or "invalid" directory
    temps,              \* temporary directories and files that exist
    tmp_files,          \* files inside the temporary directory of run_aroma
    abnormal,           \* the first external tool that exited abnormally, or "none"
    mix_shape,          \* shape of mix (melodic_mix)
    rp_shape,           \* shape of rparams (motion parameters)
    seed,               \* feature_time_series: seed argument of the call
    rng,                \* state of the process-wide generator of random
    ts_result,          \* feature_time_series: outcome of the last call
    ts_calls,           \* feature_time_series: number of calls made
    total_sum, csf_sum, edge_sum, outside_sum,   \* feature_spatial: zsums
    max_rp_correl, edge_fraction, hfc, csf_fraction,   \* feature scores
    motion_ic_indices,  \* result of classification
    denoise_log,        \* invocations of denoising, in order
    regfilt_log,        \* invocations of fsl_regfilt, in order
    warnings,           \* messages logged with logging.warning, in order
    copies,             \* shutil.copyfile(infile, outfile) made by denoising
    files,              \* report files written by save_classification
    ftmix,              \* melodic_FTmix: [ndim, rows], a row per frequency bin
    mix,                \* feature_time_series: the rows of mix (melodic_mix)
    rparams,            \* feature_time_series: the rows of rparams
    rp_model,           \* feature_time_series: the rows of rp_model
    chosen_rows,        \* feature_time_series: chosen_rows of the last pass
    max_correls,        \* feature_time_series: max_correls[i] of the last pass
    ts_subsets,         \* feature_time_series: chosen_rows of every pass of the last call
    ts_log              \* feature_time_series: what each seed gave, when first used

runVars == <<pc, error, t_r, denoise_type, dim, melodic_dir, temps, tmp_files,
            abnormal>>
tsVars == <<mix_shape, rp_shape, seed, rng, ts_result, ts_calls>>
sumVars == <<total_sum, csf_sum, edge_sum, outside_sum>>
scoreVars == <<max_rp_correl, edge_fraction, hfc, csf_fraction>>
outVars == <<denoise_log, regfilt_log, warnings, copies, files>>
dataVars == <<ftmix, mix, rparams, rp_model, chosen_rows, max_correls,
             ts_subsets, ts_log>>
vars == <<runVars, tsVars, sumVars, scoreVars, motion_ic_indices, outVars,
         dataVars>>

----------------------------------------------------------------------------
(* Bounds of the model *)

\* classification is applied to score vectors of 0..MaxN components
MaxN == 2
\* feature_spatial is applied to SpatialN components with sums in 0..MaxSum
SpatialN == 1
MaxSum == 2
\* a run of run_aroma decomposes the data into 1..MaxComp components
MaxComp == 2
\* the generator of random numbers has RngMod states
RngMod == 8
\* feature_time_series is called at most MaxCalls times in a row
MaxCalls == 3

----------------------------------------------------------------------------
(* Fractions *)

Frac(n, d) == <<n, d>>
Zero == Frac(0, 1)

\* a > b, a and b fractions with positive denominators
FracGT(a, b) == a[1] * b[2] > b[1] * a[2]

\* no exception has been raised
NoError == <<>>

\* An optional argument (a seed) is None or the one-element sequence <<s>>
None == <<>>

\* the indices 0..N-1 of a sequence of length N
Indices(s) == 0 .. (Len(s) - 1)

InSeq(x, s) == \E k \in 1..Len(s) : s[k] = x

\* np.loadtxt of a table of rows x cols numbers: dimensions of length one
\* are squeezed out of the shape of the array
LoadTxt(rows, cols) ==
    SelectSeq(<<rows, cols>>, LAMBDA x : x # 1)

----------------------------------------------------------------------------
(* classification *)

csf_threshold == Frac(10, 100)
hfc_threshold == Frac(35, 100)

\* The hyperplane parameters, each scaled by 10^14 and written in base 10^4
\* with the least significant limb first:
\*   -19.9751070082159, 9.95127547670627, 24.8333160239175
hyperplane ==
    << [sign |-> -1, limbs |-> <<1590, 82, 5107, 1997>>],
       [sign |-> 1, limbs |-> <<627, 4767, 1275, 995>>],
       [sign |-> 1, limbs |-> <<1750, 239, 3316, 2483>>] >>

\* h * f, limb by limb (f an integer)
Times(h, f) == [k \in 1..4 |-> h.sign * h.limbs[k] * f]

\* The sign of a number given by four limbs of any sign: carry from the least
\* significant limb up, then the number is positive when the top limb is, or
\* when the top limb is zero and a lower digit is not.
Positive(v) ==
    LET s1 == v[1]
        s2 == v[2] + (s1 \div 10000)
        s3 == v[3] + (s2 \div 10000)
        s4 == v[4] + (s3 \div 10000)
    IN  \/ s4 > 0
        \/ s4 = 0 /\ (s1 % 10000 > 0 \/ s2 % 10000 > 0 \/ s3 % 10000 > 0)

\* projection = hyperplane[0] + [max_rp_correl, edge_fraction] . hyperplane[1:]
\* for one component, times the (positive) product of the two denominators.
projection(m, e) ==
    LET a == Times(hyperplane[1], m[2] * e[2])
        b == Times(hyperplane[2], m[1] * e[2])
        c == Times(hyperplane[3], e[1] * m[2])
    IN  [k \in 1..4 |-> a[k] + b[k] + c[k]]

\* np.where(mask)[0]: the indices at which mask holds, in ascending order
WhereOffByOne(mask) ==
    SelectSeq([k \in 1..Len(mask) |-> k], LAMBDA i : mask[i])

Where(mask) ==
    SelectSeq([k \in 1..Len(mask) |-> k - 1], LAMBDA i : mask[i + 1])

\* the mask of classification with >= for the CSF test
MotionMaskInclusive(rp, ef, hf, cf) ==
    [k \in 1..Len(rp) |->
        \/ Positive(projection(rp[k], ef[k]))
        \/ ~FracGT(csf_threshold, cf[k])
        \/ FracGT(hf[k], hfc_threshold)]

\* (projection > 0) | (csf_fraction > csf_threshold) | (hfc > hfc_threshold)
MotionMask(rp, ef, hf, cf) ==
    [k \in 1..Len(rp) |->
        \/ Positive(projection(rp[k], ef[k]))
        \/ FracGT(cf[k], csf_threshold)
        \/ FracGT(hf[k], hfc_threshold)]

\* classification(max_rp_correl, edge_fraction, hfc, csf_fraction)
classification(rp, ef, hf, cf) ==
    IF ~(Len(rp) = Len(ef) /\ Len(ef) = Len(hf) /\ Len(hf) = Len(cf))
    THEN [err |-> "AssertionError", indices |-> <<>>]
    ELSE [err |-> "none", indices |-> Where(MotionMask(rp, ef, hf, cf))]

----------------------------------------------------------------------------
(* Values left alone by a specification that does not use them *)

RunIdle ==
    /\ error = NoError /\ t_r = 20 /\ denoise_type = "none" /\ dim = 0
    /\ melodic_dir = "None" /\ temps = {} /\ tmp_files = {} /\ abnormal = "none"

TsIdle ==
    /\ mix_shape = <<>> /\ rp_shape = <<>> /\ seed = None /\ rng = 0
    /\ ts_result = "none" /\ ts_calls = 0

SumsIdle ==
    /\ total_sum = <<>> /\ csf_sum = <<>> /\ edge_sum = <<>>
    /\ outside_sum = <<>>

ScoresIdle ==
    /\ max_rp_correl = <<>> /\ edge_fraction = <<>> /\ hfc = <<>>
    /\ csf_fraction = <<>>

OutIdle ==
    /\ denoise_log = <<>> /\ regfilt_log = <<>> /\ warnings = <<>>
    /\ copies = <<>> /\ files = <<>>

\* no array has been loaded
NoArray == [ndim |-> 0, rows |-> <<>>]

DataIdle ==
    /\ ftmix = NoArray /\ mix = <<>> /\ rparams = <<>> /\ rp_model = <<>>
    /\ chosen_rows = <<>> /\ max_correls = <<>>
    /\ ts_subsets = <<>> /\ ts_log = <<>>

----------------------------------------------------------------------------
(* classification applied to every vector of scores within the bounds *)

RpValues == {Frac(1, 10), Frac(9, 10), Frac(1, 1)}
EfValues == {Frac(1, 10), Frac(2, 5), Frac(41, 100), Frac(1, 2)}
HfValues == {Frac(7, 20), Frac(2, 5)}
CfValues == {Frac(1, 10), Frac(1, 5)}

ClassifyInit ==
    /\ pc = "classification"
    /\ RunIdle /\ TsIdle /\ SumsIdle /\ OutIdle
    /\ \E n \in 0..MaxN :
        /\ max_rp_correl \in [1..n -> RpValues]
        /\ edge_fraction \in [1..n -> EfValues]
        /\ hfc \in [1..n -> HfValues]
        /\ csf_fraction \in [1..n -> CfValues]
    /\ motion_ic_indices = <<>>
    /\ DataIdle

Classify ==
    /\ pc = "classification"
    /\ LET r == classification(max_rp_correl, edge_fraction, hfc, csf_fraction)
       IN  /\ error' = IF r.err = "none" THEN NoError ELSE <<"classification", r.err>>
           /\ motion_ic_indices' = r.indices
           /\ pc' = IF r.err = "none" THEN "classified" ELSE "error"
    /\ UNCHANGED <<t_r, denoise_type, dim, melodic_dir, temps, tmp_files, abnormal>>
    /\ UNCHANGED <<tsVars, sumVars, scoreVars, outVars>>
    /\ UNCHANGED dataVars

ClassifyNext == Classify

SpecClassify == ClassifyInit /\ [][ClassifyNext]_vars

\* C1: classification returns index i if and only if
\* -19.9751070082159 + 9.95127547670627*max_rp_correl[i]
\* + 24.8333160239175*edge_fraction[i] > 0, or csf_fraction[i] > 0.10, or
\* hfc[i] > 0.35; the two overrides decide whatever the sign of the projection.
C1_ReturnedIffRule ==
    pc = "classified" =>
        \A i \in Indices(max_rp_correl) :
            InSeq(i, motion_ic_indices) <=>
                \/ Positive(projection(max_rp_correl[i + 1], edge_fraction[i + 1]))
                \/ 10 * csf_fraction[i + 1][1] > csf_fraction[i + 1][2]
                \/ 20 * hfc[i + 1][1] > 7 * hfc[i + 1][2]

\* C1 witness: one component is returned on the hfc override alone (negative
\* projection, csf_fraction not above 0.10), another fails the three tests,
\* its csf_fraction exactly 0.10 and its hfc exactly 0.35, and is not returned.
C1_Witness ==
    /\ pc = "classified"
    /\ Len(max_rp_correl) = 2
    /\ ~Positive(projection(max_rp_correl[1], edge_fraction[1]))
    /\ csf_fraction[1] = Frac(1, 10) /\ hfc[1] = Frac(2, 5)
    /\ ~Positive(projection(max_rp_correl[2], edge_fraction[2]))
    /\ csf_fraction[2] = Frac(1, 10) /\ hfc[2] = Frac(7, 20)
    /\ motion_ic_indices = <<0>>

\* C2: the indices returned by classification lie in 0..N-1 and are in
\* strictly ascending order (hence without duplicates).
C2_IndicesSortedInRange ==
    pc = "classified" =>
        /\ \A k \in 1..Len(motion_ic_indices) :
            motion_ic_indices[k] \in Indices(max_rp_correl)
        /\ \A k \in 1..(Len(motion_ic_indices) - 1) :
            motion_ic_indices[k] < motion_ic_indices[k + 1]

\* C2 witness: every one of two or more components is returned.
C2_Witness ==
    /\ pc = "classified"
    /\ Len(max_rp_correl) >= 2
    /\ Len(motion_ic_indices) = Len(max_rp_correl)

----------------------------------------------------------------------------
(* feature_spatial *)

\* np.where(total_sum > csf_sum, csf_sum / total_sum, 0) with the guard
\* total_sum > 0 in its place
CsfFractionOfGuardedOnTotal(total, csf) ==
    [k \in 1..Len(total) |->
        IF total[k] > 0 THEN Frac(csf[k], total[k]) ELSE Zero]

\* np.where(total_sum > csf_sum, csf_sum / total_sum, 0)
CsfFractionOf(total, csf) ==
    [k \in 1..Len(total) |->
        IF total[k] > csf[k] THEN Frac(csf[k], total[k]) ELSE Zero]

\* np.where(total_sum > csf_sum, (outside_sum + edge_sum) / (total_sum - csf_sum), 0)
EdgeFractionOf(total, csf, edge, outside) ==
    [k \in 1..Len(total) |->
        IF total[k] > csf[k]
        THEN Frac(outside[k] + edge[k], total[k] - csf[k])
        ELSE Zero]

\* feature_spatial applied to every four vectors of sums within the bounds
SpatialInit ==
    /\ pc = "feature_spatial"
    /\ RunIdle /\ TsIdle /\ OutIdle
    /\ \E n \in 1..SpatialN :
        /\ total_sum \in [1..n -> 0..MaxSum]
        /\ csf_sum \in [1..n -> 0..MaxSum]
        /\ edge_sum \in [1..n -> 0..MaxSum]
        /\ outside_sum \in [1..n -> 0..MaxSum]
    /\ max_rp_correl = <<>> /\ hfc = <<>>
    /\ edge_fraction = <<>> /\ csf_fraction = <<>>
    /\ motion_ic_indices = <<>>
    /\ DataIdle

SpatialFractions ==
    /\ pc = "feature_spatial"
    /\ edge_fraction' = EdgeFractionOf(total_sum, csf_sum, edge_sum, outside_sum)
    /\ csf_fraction' = CsfFractionOf(total_sum, csf_sum)
    /\ pc' = "spatial_done"
    /\ UNCHANGED <<error, t_r, denoise_type, dim, melodic_dir, temps, tmp_files, abnormal>>
    /\ UNCHANGED <<tsVars, sumVars, max_rp_correl, hfc, motion_ic_indices, outVars>>
    /\ UNCHANGED dataVars

SpatialNext == SpatialFractions

SpecSpatial == SpatialInit /\ [][SpatialNext]_vars

C10_AllCsfGivesOne ==
    pc = "spatial_done" =>
        \A k \in 1..Len(total_sum) :
            (total_sum[k] = csf_sum[k] /\ total_sum[k] > 0) =>
                /\ edge_fraction[k][1] = 0
                /\ csf_fraction[k][1] = csf_fraction[k][2]

\* C11: for non-negative sums with csf_sum, edge_sum and outside_sum each at
\* most total_sum, the csf_fraction and the edge_fraction of feature_spatial
\* both lie in [0, 1].
C11_FractionsInUnitInterval ==
    pc = "spatial_done" =>
        \A k \in 1..Len(total_sum) :
            (/\ csf_sum[k] <= total_sum[k]
             /\ edge_sum[k] <= total_sum[k]
             /\ outside_sum[k] <= total_sum[k]) =>
                /\ csf_fraction[k][2] > 0 /\ edge_fraction[k][2] > 0
                /\ 0 <= csf_fraction[k][1]
                /\ csf_fraction[k][1] <= csf_fraction[k][2]
                /\ 0 <= edge_fraction[k][1]
                /\ edge_fraction[k][1] <= edge_fraction[k][2]

----------------------------------------------------------------------------
(* feature_frequency *)

RECURSIVE Gcd(_, _)
Gcd(a, b) == IF b = 0 THEN a ELSE Gcd(b, a % b)

\* the same fraction in lowest terms; 0/0 (nan) is left as it is
Lowest(f) ==
    LET g == Gcd(IF f[1] < 0 THEN -f[1] ELSE f[1], f[2])
    IN  IF g = 0 THEN f ELSE Frac(f[1] \div g, f[2] \div g)

\* a - b and a / b (b > 0)
FracSub(a, b) == Lowest(Frac(a[1] * b[2] - b[1] * a[2], a[2] * b[2]))
FracDiv(a, b) == Lowest(Frac(a[1] * b[2], a[2] * b[1]))

\* x != x: the quotient 0/0
IsNaN(x) == x[2] = 0

\* sample_frequency = 1 / t_r; nyquist = sample_frequency / 2 (Hz), with t_r
\* in tenths of a second
Nyquist(tr) == Lowest(Frac(10, 2 * tr))

\* frequencies = nyquist * (np.arange(ftmix.shape[0]) + 1) / ftmix.shape[0]
Frequencies(tr, nrows) ==
    [k \in 1..nrows |->
        Lowest(Frac(Nyquist(tr)[1] * k, Nyquist(tr)[2] * nrows))]

\* 0.01 Hz
LowCut == Frac(1, 100)

\* the rows selected by the mask frequencies >= 0.01
KeptRowsInclusive(frequencies) ==
    SelectSeq([k \in 1..Len(frequencies) |-> k],
              LAMBDA k : ~FracGT(LowCut, frequencies[k]))

\* the rows selected by the mask frequencies > 0.01, as positions 1..nrows
KeptRows(frequencies) ==
    SelectSeq([k \in 1..Len(frequencies) |-> k],
              LAMBDA k : FracGT(frequencies[k], LowCut))

\* np.cumsum(column)[q - 1] and np.sum(column)
RECURSIVE CumSum(_, _)
CumSum(column, q) == IF q = 0 THEN 0 ELSE CumSum(column, q - 1) + column[q]

\* (x - 0.5)**2, nan for nan
SquaredDistance(x) ==
    IF IsNaN(x) THEN x
    ELSE Lowest(Frac((2 * x[1] - x[2]) * (2 * x[1] - x[2]), 4 * x[2] * x[2]))

\* np.argmin(v) of a non-empty vector: the index of the first nan if there
\* is one, else the index of the first occurrence of the minimum
ArgMin(v) ==
    IF \E k \in 1..Len(v) : IsNaN(v[k])
    THEN (CHOOSE k \in 1..Len(v) :
              IsNaN(v[k]) /\ \A j \in 1..(k - 1) : ~IsNaN(v[j])) - 1
    ELSE (CHOOSE k \in 1..Len(v) :
              /\ \A j \in 1..Len(v) : ~FracGT(v[k], v[j])
              /\ \A j \in 1..(k - 1) : FracGT(v[j], v[k])) - 1

\* feature_frequency(ftmix, t_r); ft has one row or more.  The outcome: the
\* exception raised and hfc.
feature_frequency(ft, tr) ==
    IF ft.ndim # 2 \/ ~(5 < tr /\ tr < 100)
    THEN [err |-> "AssertionError", hfc |-> <<>>]
    ELSE LET frequencies == Frequencies(tr, Len(ft.rows))
             kept == KeptRows(frequencies)
             normalised_frequencies ==
                 [q \in 1..Len(kept) |->
                     FracDiv(FracSub(frequencies[kept[q]], LowCut),
                             FracSub(Nyquist(tr), LowCut))]
             column(c) == [q \in 1..Len(kept) |-> ft.rows[kept[q]][c]]
             fcumsum_fraction(c) ==
                 [q \in 1..Len(kept) |->
                     Frac(CumSum(column(c), q), CumSum(column(c), Len(kept)))]
             index_cutoff(c) ==
                 ArgMin([q \in 1..Len(kept) |->
                            SquaredDistance(fcumsum_fraction(c)[q])])
         IN  IF kept = <<>>
             THEN \* np.argmin of an empty array
                  [err |-> "ValueError", hfc |-> <<>>]
             ELSE [err |-> "none",
                   hfc |-> [c \in 1..Len(ft.rows[1]) |->
                               normalised_frequencies[index_cutoff(c) + 1]]]

\* the array of rank ndim with the given columns, each of nrows numbers
Array(columns, nrows, ndim) ==
    [ndim |-> ndim,
     rows |-> [k \in 1..nrows |-> [c \in 1..Len(columns) |-> columns[c][k]]]]

\* np.loadtxt of a table given by its columns: the array of its rows, or the
\* rank-1 array of its only column
LoadColumns(columns, nrows) ==
    Array(columns, nrows, Len(LoadTxt(nrows, Len(columns))))

\* feature_frequency applied to spectra of one column or more.  The powers
\* a column holds in the rows above 0.01 Hz add up to 0 or to a power of
\* two, so that each cumulative fraction, and its distance from 0.5, is the
\* same number in binary floating point and here.
FtPowers == {0, 1}
FtRowCounts == {1, 3, 10}
FreqTRValues == {5, 6, 50, 99, 100}

FtInputs ==
    UNION {
        {Array(cols, nrows, 2) :
            cols \in UNION {[1..n -> [1..nrows -> FtPowers]] :
                               n \in 1..(IF nrows <= 3 THEN MaxComp ELSE 1)}} :
        nrows \in FtRowCounts}
    \cup {LoadColumns(<<col>>, 3) : col \in [1..3 -> FtPowers]}

ExactSpectrum(ft, tr) ==
    LET kept == KeptRows(Frequencies(tr, Len(ft.rows)))
    IN  \A c \in 1..Len(ft.rows[1]) :
            CumSum([q \in 1..Len(kept) |-> ft.rows[kept[q]][c]], Len(kept))
                \in {0, 1, 2, 4, 8}

FrequencyInit ==
    /\ pc = "frequency"
    /\ error = NoError /\ t_r \in FreqTRValues /\ denoise_type = "none"
    /\ dim = 0 /\ melodic_dir = "None" /\ temps = {} /\ tmp_files = {}
    /\ abnormal = "none"
    /\ TsIdle /\ SumsIdle /\ ScoresIdle /\ OutIdle
    /\ motion_ic_indices = <<>>
    /\ ftmix \in FtInputs
    /\ ExactSpectrum(ftmix, t_r)
    /\ mix = <<>> /\ rparams = <<>> /\ rp_model = <<>>
    /\ chosen_rows = <<>> /\ max_correls = <<>>
    /\ ts_subsets = <<>> /\ ts_log = <<>>

\* a call of feature_frequency(ftmix, t_r)
FrequencyCall ==
    /\ pc = "frequency"
    /\ LET r == feature_frequency(ftmix, t_r)
       IN  /\ hfc' = r.hfc
           /\ IF r.err = "none"
              THEN pc' = "frequency_done" /\ error' = error
              ELSE pc' = "error" /\ error' = <<"feature_frequency", r.err>>
    /\ UNCHANGED <<t_r, denoise_type, dim, melodic_dir, temps, tmp_files, abnormal>>
    /\ UNCHANGED <<tsVars, sumVars, max_rp_correl, edge_fraction, csf_fraction>>
    /\ UNCHANGED <<motion_ic_indices, outVars, dataVars>>

FrequencyNext == FrequencyCall

SpecFrequency == FrequencyInit /\ [][FrequencyNext]_vars

\* the power of component c in the rows of `remain` (0-based) up to row r
RECURSIVE C12_Power(_, _, _)
C12_Power(c, remain, r) ==
    IF r < 0 THEN 0
    ELSE C12_Power(c, remain, r - 1)
             + (IF r \in remain THEN ftmix.rows[r + 1][c] ELSE 0)

\* With the rows of `remain` remaining, of F rows, there is a row remaining,
\* every score is in [0, 1], and the score of a component with power in the
\* remaining rows is (f - 0.01)/(nyquist - 0.01), f = nyquist*(r + 1)/F the
\* frequency of the first remaining row r whose cumulative power fraction
\* has the smallest squared distance from 0.5 (nyquist = 5/t_r Hz, t_r in
\* tenths of a second).
C12_ScoresOver(remain) ==
    LET F == Len(ftmix.rows)
    IN  /\ remain # {}
        /\ \A c \in 1..Len(hfc) :
            LET total == C12_Power(c, remain, F - 1)
                dist(r) == (2 * C12_Power(c, remain, r) - total)
                               * (2 * C12_Power(c, remain, r) - total)
            IN  /\ hfc[c][2] > 0
                /\ 0 <= hfc[c][1] /\ hfc[c][1] <= hfc[c][2]
                /\ total > 0 =>
                    \E r \in remain :
                        /\ \A r2 \in remain : dist(r) <= dist(r2)
                        /\ \A r2 \in remain : r2 < r => dist(r2) > dist(r)
                        /\ hfc[c][1] * (F * (500 - t_r))
                               = (500 * (r + 1) - t_r * F) * hfc[c][2]

----------------------------------------------------------------------------
(* The generator of the random module, and random.sample *)

\* random.seed(seed): the state of the generator is a function of the seed
Seeded(s) == s % RngMod

\* the state of the generator after one draw
Advance(g) == (5 * g + 3) % RngMod

\* _randbelow(n): a number in 0..n-1 read off the state, which advances
RandBelow(g, n) == [value |-> g % n, rng |-> Advance(g)]

\* random.sample(population, k) for a population of at most 21 elements:
\*   pool = list(population)
\*   for i in range(k):
\*       j = _randbelow(n - i); result[i] = pool[j]; pool[j] = pool[n - i - 1]
\* pool is a sequence, n the number of elements still in it.
RECURSIVE SampleFrom(_, _, _, _)
SampleFrom(pool, n, k, g) ==
    IF k = 0
    THEN [rows |-> <<>>, rng |-> g]
    ELSE LET d == RandBelow(g, n)
             j == d.value + 1
             rest == SampleFrom([pool EXCEPT ![j] = pool[n]], n - 1, k - 1, d.rng)
         IN  [rows |-> <<pool[j]>> \o rest.rows, rng |-> rest.rng]

\* random.sample(population=range(nmixrows), k=nrows_to_choose)
Sample(nmixrows, k, g) ==
    SampleFrom([q \in 1..nmixrows |-> q - 1], nmixrows, k, g)

----------------------------------------------------------------------------
(* feature_time_series *)

nsplits == 1000

\* the shape of rp_model: rparams, their derivatives (first row zero) and the
\* copies of the two shifted one row forward and one row backward, side by side
RpModelShape(shape) == <<shape[1], 3 * (2 * shape[2])>>

\* int(round(0.9 * nmixrows)); exact unless 0.9 * nmixrows ends in .5
NRowsToChoose(nmixrows) == (9 * nmixrows + 5) \div 10

\* One pass of the loop body from the generator state g: the rows are drawn,
\* mix[chosen_rows] always succeeds (the rows come from range(nmixrows)),
\* rp_model[chosen_rows] raises IndexError when a row is beyond rp_model.
Trial(g, nmixrows, nrprows) ==
    LET s == Sample(nmixrows, NRowsToChoose(nmixrows), g)
    IN  [err |-> IF \E q \in 1..Len(s.rows) : s.rows[q] >= nrprows
                 THEN "IndexError" ELSE "none",
         rng |-> s.rng,
         subsets |-> <<s.rows>>]

\* n consecutive passes of the loop from the generator state g, ended by the
\* first exception; the passes are taken as two runs of passes, one after the
\* other.  subsets is chosen_rows of every pass made, in order.
RECURSIVE Trials(_, _, _, _)
Trials(n, g, nmixrows, nrprows) ==
    IF n = 0 THEN [err |-> "none", rng |-> g, subsets |-> <<>>]
    ELSE IF n = 1 THEN Trial(g, nmixrows, nrprows)
    ELSE LET first == Trials(n \div 2, g, nmixrows, nrprows)
             second == Trials(n - (n \div 2), first.rng, nmixrows, nrprows)
         IN  IF first.err # "none" THEN first
             ELSE [second EXCEPT !.subsets = first.subsets \o second.subsets]

\* the shapes of mix and of rparams, and the seeds, that the calls are given
MixShapes == {<<6, 2>>, <<7, 2>>, <<6>>}
RpShapes == {<<5, 6>>, <<6, 6>>, <<7, 6>>, <<8, 6>>}
Seeds == {None, <<0>>, <<1>>, <<5>>}

\* The passes made depend on the state of the generator and on the two row
\* counts alone.  LoopTable holds the nsplits passes from every state of the
\* generator for the row counts of MixShapes and RpShapes, each worked out
\* once by Trials (@@ makes the table an explicit function).
LoopKeys ==
    {<<ms[1], RpModelShape(rs)[1], g>> :
        ms \in {m \in MixShapes : Len(m) = 2}, rs \in RpShapes,
        g \in 0..(RngMod - 1)}

LoopTable ==
    [k \in LoopKeys |-> Trials(nsplits, k[3], k[1], k[2])] @@ <<>>

\* for i in range(nsplits): ... from the generator state g
Loop(g, nmixrows, nrprows) ==
    IF <<nmixrows, nrprows, g>> \in LoopKeys
    THEN LoopTable[<<nmixrows, nrprows, g>>]
    ELSE Trials(nsplits, g, nmixrows, nrprows)

\* feature_time_series that leaves the generator as it finds it, whatever
\* the seed
feature_time_series_unseeded(mixshape, rpshape, sd, g) ==
    IF ~(Len(mixshape) = 2 /\ Len(rpshape) = 2)
    THEN [err |-> "AssertionError", rng |-> g, subsets |-> <<>>]
    ELSE Loop(g, mixshape[1], RpModelShape(rpshape)[1])

\* feature_time_series(mix, rparams, seed) called with the generator in state
\* g; mix and rparams are given by their shapes.  The outcome is the
\* exception raised, if any, the state the generator is left in and the rows
\* chosen in each pass.
feature_time_series(mixshape, rpshape, sd, g) ==
    IF ~(Len(mixshape) = 2 /\ Len(rpshape) = 2)
    THEN [err |-> "AssertionError", rng |-> g, subsets |-> <<>>]
    ELSE Loop(IF sd # None THEN Seeded(sd[1]) ELSE g,
              mixshape[1], RpModelShape(rpshape)[1])

----------------------------------------------------------------------------
(* feature_time_series: the motion model and one pass of the loop, on data. *)
(* A matrix is the sequence of its rows.  A correlation r is known by r*r,  *)
(* a fraction, which orders the absolute values; r*r = 0/0 is nan.          *)

\* np.zeros(n)
Zeros(n) == [j \in 1..n |-> 0]

\* np.diff(m, axis=0)
Diff(m) ==
    [t \in 1..(Len(m) - 1) |-> [j \in 1..Len(m[1]) |-> m[t + 1][j] - m[t][j]]]

\* np.hstack((a, b)) of two matrices with as many rows
HStack(a, b) == [t \in 1..Len(a) |-> a[t] \o b[t]]

\* rp_model with the two shifted copies in each other's place
RpModelShiftsSwapped(rp) ==
    LET nparams == Len(rp[1])
        rp_derivs == <<Zeros(nparams)>> \o Diff(rp)
        rp12 == HStack(rp, rp_derivs)
        rp12_1fw == <<Zeros(2 * nparams)>> \o SubSeq(rp12, 1, Len(rp12) - 1)
        rp12_1bw == SubSeq(rp12, 2, Len(rp12)) \o <<Zeros(2 * nparams)>>
    IN  HStack(HStack(rp12, rp12_1bw), rp12_1fw)

\* rp_model = np.hstack((rp12, rp12_1fw, rp12_1bw)) of rparams, a matrix of
\* one row or more
RpModel(rp) ==
    LET nparams == Len(rp[1])
        rp_derivs == <<Zeros(nparams)>> \o Diff(rp)
        rp12 == HStack(rp, rp_derivs)
        rp12_1fw == <<Zeros(2 * nparams)>> \o SubSeq(rp12, 1, Len(rp12) - 1)
        rp12_1bw == SubSeq(rp12, 2, Len(rp12)) \o <<Zeros(2 * nparams)>>
    IN  HStack(HStack(rp12, rp12_1fw), rp12_1bw)

\* m[rows], rows a sequence of 0-based row indices within m
Take(m, rows) == [q \in 1..Len(rows) |-> m[rows[q] + 1]]

\* m**2
Squared(m) == [t \in 1..Len(m) |-> [j \in 1..Len(m[t]) |-> m[t][j] * m[t][j]]]

\* column j of a matrix
Column(m, j) == [t \in 1..Len(m) |-> m[t][j]]

RECURSIVE Dot(_, _, _)
Dot(x, y, n) == IF n = 0 THEN 0 ELSE Dot(x, y, n - 1) + x[n] * y[n]

\* n*n times the covariance of x and y, two vectors of n numbers
Cov(x, y) ==
    LET ones == [t \in 1..Len(x) |-> 1]
    IN  Len(x) * Dot(x, y, Len(x)) - Dot(x, ones, Len(x)) * Dot(y, ones, Len(x))

\* the square of the correlation coefficient of x and y; 0/0 when x or y is
\* constant
CorrelSq(x, y) ==
    Lowest(Frac(Cov(x, y) * Cov(x, y), Cov(x, x) * Cov(y, y)))

\* cross_correlation(a, b): a row per column of a, an entry per column of b
cross_correlation(a, b) ==
    [i \in 1..Len(a[1]) |->
        [j \in 1..Len(b[1]) |-> CorrelSq(Column(a, i), Column(b, j))]]

\* np.abs(v).max(): nan when an entry is nan, else the largest
MaxAbs(v) ==
    IF \E k \in 1..Len(v) : IsNaN(v[k])
    THEN Frac(0, 0)
    ELSE v[CHOOSE k \in 1..Len(v) : \A j \in 1..Len(v) : ~FracGT(v[j], v[k])]

\* max_correls[i] with the non-squared correlations alone
C16_NonSquaredAlone(mixrows, model, rows) ==
    LET correl_nonsquared ==
            cross_correlation(Take(mixrows, rows), Take(model, rows))
    IN  [c \in 1..Len(correl_nonsquared) |-> MaxAbs(correl_nonsquared[c])]

\* max_correls[i] of a pass that chose `rows`: for every component the
\* largest absolute correlation, squared and non squared
MaxCorrels(mixrows, model, rows) ==
    LET correl_nonsquared ==
            cross_correlation(Take(mixrows, rows), Take(model, rows))
        correl_squared ==
            cross_correlation(Squared(Take(mixrows, rows)),
                              Squared(Take(model, rows)))
        correl_both == HStack(correl_squared, correl_nonsquared)
    IN  [c \in 1..Len(correl_both) |-> MaxAbs(correl_both[c])]

\* the motion parameters and the mixing matrices the passes are made on:
\* T rows of 6 parameters in 0..2, and T rows of 1..MaxComp values in -1..1,
\* the first T values of a time course for each component
RpRowCounts == {1, 3, 6}

RpData(T, b) ==
    [t \in 1..T |-> [j \in 1..6 |-> (2 * t * t + b * t * j + 2 * j + t) % 3]]

RpMatrices == {RpData(T, b) : T \in RpRowCounts, b \in {0, 2}}

TimeCourseList ==
    << <<-1, -1, -1, 0, 1, 0, 1, -1>>, <<-1, -1, -1, 1, 0, 0, -1, 1>>,
       <<1, -1, -1, 1, -1, -1, 1, 1>> >>

TimeCourses == {TimeCourseList[k] : k \in 1..Len(TimeCourseList)}

MixMatrices(T) ==
    {[t \in 1..T |-> [c \in 1..Len(cols) |-> cols[c][t]]] :
        cols \in UNION {[1..n -> TimeCourses] : n \in 1..MaxComp}}

MotionModelInit ==
    /\ pc = "rp_model"
    /\ RunIdle /\ SumsIdle /\ ScoresIdle /\ OutIdle
    /\ mix_shape = <<>> /\ rp_shape = <<>> /\ seed = None
    /\ rng \in 0..(RngMod - 1)
    /\ ts_result = "none" /\ ts_calls = 0
    /\ motion_ic_indices = <<>>
    /\ ftmix = NoArray
    /\ rparams \in RpMatrices
    /\ mix \in MixMatrices(Len(rparams))
    /\ rp_model = <<>> /\ chosen_rows = <<>> /\ max_correls = <<>>
    /\ ts_subsets = <<>> /\ ts_log = <<>>

\* feature_time_series, the construction of rp_model
BuildRpModel ==
    /\ pc = "rp_model"
    /\ rp_model' = RpModel(rparams)
    /\ pc' = "loop"
    /\ UNCHANGED <<error, t_r, denoise_type, dim, melodic_dir, temps, tmp_files, abnormal>>
    /\ UNCHANGED <<tsVars, sumVars, scoreVars, motion_ic_indices, outVars>>
    /\ UNCHANGED <<ftmix, mix, rparams, chosen_rows, max_correls, ts_subsets, ts_log>>

\* feature_time_series, one pass of the loop over the splits
LoopPass ==
    /\ pc = "loop"
    /\ LET s == Sample(Len(mix), NRowsToChoose(Len(mix)), rng)
       IN  /\ chosen_rows' = s.rows
           /\ rng' = s.rng
           /\ max_correls' = MaxCorrels(mix, rp_model, s.rows)
    /\ pc' = "pass_done"
    /\ UNCHANGED <<error, t_r, denoise_type, dim, melodic_dir, temps, tmp_files, abnormal>>
    /\ UNCHANGED <<mix_shape, rp_shape, seed, ts_result, ts_calls>>
    /\ UNCHANGED <<sumVars, scoreVars, motion_ic_indices, outVars>>
    /\ UNCHANGED <<ftmix, mix, rparams, rp_model, ts_subsets, ts_log>>

MotionModelNext == BuildRpModel \/ LoopPass

SpecMotionModel == MotionModelInit /\ [][MotionModelNext]_vars

\* C16: the motion model of a T-row, 6-column parameter matrix has T rows
\* and 36 columns: the 6 parameters; their first differences, row 0 all
\* zero; the 12 columns shifted one sample forward, row 0 all zero; the 12
\* columns shifted one sample backward, row T-1 all zero.  The score of a
\* component in a pass is the largest absolute correlation of the component
\* with the columns of the model, over the squared and the non-squared
\* values of the chosen rows.
C16_ModelAndPassScore ==
    /\ pc \in {"loop", "pass_done"} =>
        /\ Len(rp_model) = Len(rparams)
        /\ \A t \in 1..Len(rparams) :
            /\ Len(rp_model[t]) = 36
            /\ \A j \in 1..6 :
                /\ rp_model[t][j] = rparams[t][j]
                /\ rp_model[t][6 + j] =
                       (IF t = 1 THEN 0 ELSE rparams[t][j] - rparams[t - 1][j])
            /\ \A j \in 1..12 :
                /\ rp_model[t][12 + j] =
                       (IF t = 1 THEN 0 ELSE rp_model[t - 1][j])
                /\ rp_model[t][24 + j] =
                       (IF t = Len(rparams) THEN 0 ELSE rp_model[t + 1][j])
    /\ pc = "pass_done" =>
        /\ Len(max_correls) = Len(mix[1])
        /\ \A c \in 1..Len(max_correls) :
            LET x == [q \in 1..Len(chosen_rows) |-> mix[chosen_rows[q] + 1][c]]
                y(j) == [q \in 1..Len(chosen_rows) |->
                            rp_model[chosen_rows[q] + 1][j]]
                sq(v) == [q \in 1..Len(v) |-> v[q] * v[q]]
                correls == {CorrelSq(x, y(j)) : j \in 1..36}
                               \cup {CorrelSq(sq(x), sq(y(j))) : j \in 1..36}
            IN  (\A r \in correls : ~IsNaN(r)) =>
                    /\ max_correls[c] \in correls
                    /\ \A r \in correls : ~FracGT(r, max_correls[c])

\* C16 witness: a pass over 5 of 6 rows has given a component a score that
\* is a number, reached on the squared values and on no non-squared ones.
C16_Witness ==
    /\ pc = "pass_done"
    /\ Len(rparams) = 6 /\ Len(chosen_rows) = 5
    /\ ~IsNaN(max_correls[1])
    /\ FracGT(max_correls[1],
              C16_NonSquaredAlone(mix, rp_model, chosen_rows)[1])

\* the values a mean of maximal absolute correlations takes in the model
TsScoreValues == {Frac(1, 10), Frac(9, 10)}

\* the number of components of a mix of the given shape
MixCols(shape) == IF Len(shape) = 2 THEN shape[2] ELSE 1

\* the arrays of the given shapes that the calls are made on
TsMix(shape) ==
    IF Len(shape) = 2
    THEN [t \in 1..shape[1] |-> [c \in 1..shape[2] |-> TimeCourseList[c][t]]]
    ELSE [t \in 1..shape[1] |-> TimeCourseList[1][t]]

TsRparams(shape) == RpData(shape[1], 0)

\* The score of a pass depends on mix, rp_model and chosen_rows alone.
\* PassTable holds max_correls[i] of a pass for the arrays the calls are made
\* on and every chosen_rows a loop that ends without an exception draws, each
\* worked out once by MaxCorrels.
PassKeysOf(ms, rs) ==
    UNION {IF LoopTable[k].err = "none"
           THEN {<<TsMix(ms), RpModel(TsRparams(rs)), LoopTable[k].subsets[i]>> :
                    i \in 1..Len(LoopTable[k].subsets)}
           ELSE {} :
           k \in {<<ms[1], RpModelShape(rs)[1], g>> : g \in 0..(RngMod - 1)}}

PassKeys ==
    UNION {PassKeysOf(ms, rs) :
              ms \in {m \in MixShapes : Len(m) = 2}, rs \in RpShapes}

PassTable ==
    [k \in PassKeys |-> MaxCorrels(k[1], k[2], k[3])] @@ <<>>

\* max_correls[i] of a pass that chose `rows`
PassScores(mixrows, model, rows) ==
    IF <<mixrows, model, rows>> \in PassKeys
    THEN PassTable[<<mixrows, model, rows>>]
    ELSE MaxCorrels(mixrows, model, rows)

\* max_correls.mean(axis=0) over passes that chose `subsets`, as the sum it
\* is: for each component, and for each chosen_rows met, the score of a pass
\* that chose them and the number of the passes that did
MeanMaxCorrels(mixrows, model, subsets) ==
    CHOOSE mean \in
        {[c \in 1..Len(mixrows[1]) |->
             [rows \in DOMAIN table |->
                 [score |-> table[rows].scores[c],
                  passes |-> table[rows].passes]]] :
         table \in
            {[rows \in {subsets[i] : i \in 1..Len(subsets)} |->
                 [scores |-> PassScores(mixrows, model, rows),
                  passes |-> Cardinality({i \in 1..Len(subsets) :
                                             subsets[i] = rows})]]}} : TRUE


TsInit ==
    /\ pc = "feature_time_series"
    /\ RunIdle /\ SumsIdle /\ ScoresIdle /\ OutIdle
    /\ mix_shape \in MixShapes
    /\ rp_shape \in RpShapes
    /\ rng \in 0..(RngMod - 1)
    /\ seed = None /\ ts_result = "none" /\ ts_calls = 0
    /\ motion_ic_indices = <<>>
    /\ ftmix = NoArray
    /\ mix = TsMix(mix_shape) /\ rparams = TsRparams(rp_shape)
    /\ rp_model = <<>> /\ chosen_rows = <<>> /\ max_correls = <<>>
    /\ ts_subsets = <<>> /\ ts_log = <<>>

\* a call of feature_time_series(mix, rparams, seed), with any seed, the
\* generator being in the state the calls before left it in.  ts_log keeps,
\* for each seed given so far, the outcome of the first call given it.
TsCall ==
    /\ pc \in {"feature_time_series", "ts_returned"}
    /\ ts_calls < MaxCalls
    /\ \E sd \in Seeds :
        \E r \in {feature_time_series(mix_shape, rp_shape, sd, rng)} :
        \E scores \in {IF r.err = "none"
                       THEN MeanMaxCorrels(mix, RpModel(rparams), r.subsets)
                       ELSE <<>>} :
            LET outcome == [result |-> IF r.err = "none" THEN "scores" ELSE r.err,
                            subsets |-> r.subsets,
                            scores |-> scores,
                            call |-> ts_calls + 1]
            IN  /\ seed' = sd
                /\ rng' = r.rng
                /\ ts_result' = outcome.result
                /\ ts_subsets' = r.subsets
                /\ max_rp_correl' = scores
                /\ ts_log' = IF sd = None \/ sd \in DOMAIN ts_log
                             THEN ts_log
                             ELSE [s \in DOMAIN ts_log \cup {sd} |->
                                      IF s = sd THEN outcome ELSE ts_log[s]]
    /\ ts_calls' = ts_calls + 1
    /\ pc' = "ts_returned"
    /\ UNCHANGED <<error, t_r, denoise_type, dim, melodic_dir, temps, tmp_files, abnormal>>
    /\ UNCHANGED <<mix_shape, rp_shape, sumVars, edge_fraction, hfc, csf_fraction>>
    /\ UNCHANGED <<motion_ic_indices, outVars>>
    /\ UNCHANGED <<ftmix, mix, rparams, rp_model, chosen_rows, max_correls>>

TsNext == TsCall

SpecTS == TsInit /\ [][TsNext]_vars

\* C13: a call of feature_time_series with a seed that is not None, on the
\* same mix and rparams, chooses the same rows in each of its 1000 passes
\* and returns the same max_rp_correl as the first call given that seed,
\* whatever the state the generator was in before either call and whatever
\* calls, seeded or not, were made in between.
C13_SameSeedSameResult ==
    (pc = "ts_returned" /\ seed # None) =>
        /\ seed \in DOMAIN ts_log
        /\ ts_log[seed].result = ts_result
        /\ ts_log[seed].subsets = ts_subsets
        /\ ts_log[seed].scores = max_rp_correl
        /\ ts_result = "scores" => Len(ts_subsets) = 1000

\* C13 witness: a third call, given the seed of the first after a call given
\* another seed, has returned scores over passes that did not all choose the
\* same rows.
C13_Witness ==
    /\ pc = "ts_returned" /\ ts_calls = 3
    /\ seed # None /\ seed \in DOMAIN ts_log
    /\ ts_log[seed].call = 1
    /\ \E s \in DOMAIN ts_log : ts_log[s].call = 2
    /\ ts_result = "scores"
    /\ \E i \in 1..Len(ts_subsets) : ts_subsets[i] # ts_subsets[1]

\* C7: feature_time_series called with a motion-parameter matrix whose row
\* count differs from that of the mixing matrix fails with an error and
\* returns no feature scores, whatever the seed and the draws.
C7_RowMismatchFails ==
    (pc = "ts_returned" /\ Len(mix_shape) = 2 /\ mix_shape[1] # rp_shape[1]) =>
        (ts_result # "scores" /\ max_rp_correl = <<>>)

----------------------------------------------------------------------------
(* One run of run_aroma.                                                   *)
(*                                                                         *)
(* The files named by the arguments exist and the output directory is     *)
(* writable, as __main__ ensures.  What an external tool does is not known *)
(* to the program: each call ends with any exit status and with or without *)
(* its output, and the program goes by what it checks.                     *)

ExitCodes == {0, 1}

\* the tools that exited abnormally, in order, given the exit status of one
Failed(tool, exit) == IF exit # 0 THEN <<tool>> ELSE <<>>

\* the first tool that exited abnormally, after more tools have run
FirstAbnormal(before, failed) ==
    IF before = "none" /\ failed # <<>> THEN Head(failed) ELSE before

TRValues == {4, 5, 6, 100}
DenoiseTypes == {"no", "none", "nonaggr", "aggr", "both"}
DimValues == {0, 100}
MelodicDirs == {"None", "valid"}
PipeSeeds == {None, <<1>>}
PipeMixRows == {3}
PipeRpShapes == {<<2, 6>>, <<3, 6>>}

inputVars == <<t_r, denoise_type, dim, melodic_dir, seed>>

RunInit ==
    /\ pc = "run_aroma"
    /\ error = NoError
    /\ t_r \in TRValues
    /\ denoise_type \in DenoiseTypes
    /\ dim \in DimValues
    /\ melodic_dir \in MelodicDirs
    /\ seed \in PipeSeeds
    /\ temps = {} /\ tmp_files = {} /\ abnormal = "none"
    /\ mix_shape = <<>> /\ rp_shape = <<>> /\ rng = 0
    /\ ts_result = "none" /\ ts_calls = 0
    /\ SumsIdle /\ ScoresIdle /\ OutIdle
    /\ motion_ic_indices = <<>>
    /\ DataIdle

\* the assertions at the entry of run_aroma on dim, t_r and denoise_type
RunAromaAccepts(ndim, tr, dtype) ==
    /\ 0 <= ndim /\ ndim < 100
    /\ 5 <= tr /\ tr < 100
    /\ dtype \in {"none", "aggr", "nonaggr", "both"}

\* run_aroma, from its entry to the creation of its temporary directory
RunAromaEntry ==
    /\ pc = "run_aroma"
    /\ IF RunAromaAccepts(dim, t_r, denoise_type)
       THEN /\ temps' = temps \cup {"run_aroma"}
            /\ pc' = "run_ica"
            /\ error' = error
       ELSE /\ pc' = "error"
            /\ error' = <<"run_aroma", "AssertionError">>
            /\ temps' = temps
    /\ UNCHANGED <<inputVars, tmp_files, abnormal>>
    /\ UNCHANGED <<mix_shape, rp_shape, rng, ts_result, ts_calls>>
    /\ UNCHANGED <<sumVars, scoreVars, motion_ic_indices, outVars>>
    /\ UNCHANGED dataVars

\* is_valid_melodic_dir, of a directory known by what it holds
is_valid_melodic_dir(dirname) == dirname = "valid"

\* run_ica(infile, outfile, maskfile, t_r, ndims_ica, melodic_indir, seed).
\* env is what the tools do: melodic ends with env.melodic_exit and leaves a
\* valid directory or not (env.melodic_out); fslinfo (check_output) ends with
\* env.info_exit; fslroi, fslmerge and fslmaths end with env.utils_exit and
\* leave the merged file or not (env.merged); melodic_mix has env.rows rows
\* and env.ncomp columns.  The outcome: the exception raised, the tools that
\* exited abnormally, the working directory when it is left behind, the file
\* written to outfile and mix.
run_ica(tr, ndims_ica, melodic_indir, env) ==
    LET left == [err |-> "none", abnormal |-> <<>>, temps |-> {"run_ica"},
                 out |-> {}, mix |-> <<>>]
        byMelodic == Failed("melodic", env.melodic_exit)
        byInfo == Failed("fslinfo", env.info_exit)
        byUtils == Failed("imagetools", env.utils_exit)
    IN  IF ~(5 < tr /\ tr < 100 /\ 0 <= ndims_ica /\ ndims_ica < 100)
        THEN [left EXCEPT !.err = "AssertionError", !.temps = {}]
        ELSE IF is_valid_melodic_dir(melodic_indir)
        THEN \* shutil.copytree of melodic_IC.nii.gz, which is a file
             [left EXCEPT !.err = "OSError"]
        ELSE IF ~is_valid_melodic_dir(env.melodic_out)
        THEN [left EXCEPT !.err = "AssertionError", !.abnormal = byMelodic]
        ELSE IF env.info_exit # 0
        THEN [left EXCEPT !.err = "CalledProcessError",
                          !.abnormal = byMelodic \o byInfo]
        ELSE IF ~env.merged
        THEN [left EXCEPT !.err = "IOError",
                          !.abnormal = byMelodic \o byUtils]
        ELSE [err |-> "none", abnormal |-> byMelodic \o byUtils,
              temps |-> {}, out |-> {"thresholded_ics.nii.gz"},
              mix |-> LoadTxt(env.rows, env.ncomp)]

RunIcaEnvs ==
    [melodic_exit : ExitCodes, melodic_out : {"valid", "invalid"},
     info_exit : ExitCodes, utils_exit : ExitCodes, merged : BOOLEAN,
     rows : PipeMixRows, ncomp : 1..MaxComp]

\* Step 1 of run_aroma
RunIca ==
    /\ pc = "run_ica"
    /\ \E env \in RunIcaEnvs :
        LET o == run_ica(t_r, dim, melodic_dir, env)
        IN  /\ abnormal' = FirstAbnormal(abnormal, o.abnormal)
            /\ temps' = temps \cup o.temps
            /\ tmp_files' = tmp_files \cup o.out
            /\ mix_shape' = o.mix
            /\ IF o.err = "none"
               THEN pc' = "register_to_mni" /\ error' = error
               ELSE pc' = "error" /\ error' = <<"run_ica", o.err>>
    /\ UNCHANGED <<inputVars, rp_shape, rng, ts_result, ts_calls>>
    /\ UNCHANGED <<sumVars, scoreVars, motion_ic_indices, outVars>>
    /\ UNCHANGED dataVars

\* register_to_mni(infile, outfile, affmat=affmat, warp=warp); infile exists
\* and outfile can be created.  With neither affmat nor warp the pixel
\* dimensions are read with fslinfo (env.info_exit) and a 2 mm image
\* (env.is2mm) is copied; every other case calls flirt or applywarp, which
\* ends with env.reg_exit and leaves its output or not (env.reg_out).
register_to_mni(affmat, warp, env) ==
    IF affmat = None /\ warp = None /\ env.info_exit # 0
    THEN [err |-> "CalledProcessError", abnormal |-> <<"fslinfo">>, out |-> {}]
    ELSE IF affmat = None /\ warp = None /\ env.is2mm
    THEN [err |-> "none", abnormal |-> <<>>,
          out |-> {"melodic_IC_thr_MNI2mm.nii.gz"}]
    ELSE [err |-> "none", abnormal |-> Failed("registration", env.reg_exit),
          out |-> IF env.reg_out THEN {"melodic_IC_thr_MNI2mm.nii.gz"} ELSE {}]

RegisterEnvs ==
    [info_exit : ExitCodes, is2mm : BOOLEAN, reg_exit : ExitCodes,
     reg_out : BOOLEAN]

\* the affmat and warp arguments of run_aroma: None or a file
OptionalFiles == {None, <<"file">>}

\* Step 2 of run_aroma, the registration.  affmat and warp are read here
\* and nowhere else, so the run draws them here.
RegisterToMni ==
    /\ pc = "register_to_mni"
    /\ \E affmat \in OptionalFiles, warp \in OptionalFiles, env \in RegisterEnvs :
        LET o == register_to_mni(affmat, warp, env)
        IN  /\ abnormal' = FirstAbnormal(abnormal, o.abnormal)
            /\ tmp_files' = tmp_files \cup o.out
            /\ IF o.err = "none"
               THEN pc' = "feature_spatial_step" /\ error' = error
               ELSE pc' = "error" /\ error' = <<"register_to_mni", o.err>>
    /\ UNCHANGED <<inputVars, temps, mix_shape, rp_shape, rng, ts_result, ts_calls>>
    /\ UNCHANGED <<sumVars, scoreVars, motion_ic_indices, outVars>>
    /\ UNCHANGED dataVars

\* zsums(filename, mask) for a file of ncomp frames: fslmaths and fslstats
\* end with env.stats_exit, their status is not read; fslstats prints one
\* line per frame or nothing (env.printed).  np.loadtxt(p.stdout)[:, 0] needs
\* an array of rank 2, which np.loadtxt gives for two lines or more.  The
\* outcome: the exception raised and whether the temporary file is left.
zsums(ncomp, env) ==
    IF ~env.printed \/ Len(LoadTxt(ncomp, 2)) # 2
    THEN [err |-> "IndexError", abnormal |-> Failed("imagetools", env.stats_exit),
          temps |-> {"zsums"}]
    ELSE [err |-> "none", abnormal |-> Failed("imagetools", env.stats_exit),
          temps |-> {}]

\* the sums <<total, csf, edge, outside>> of a component read in a run
PipeSums == {<<4, 0, 0, 0>>, <<4, 0, 2, 1>>}

FeatureSpatialEnvs(ncomp) ==
    [stats_exit : ExitCodes, printed : BOOLEAN, sums : [1..ncomp -> PipeSums]]

\* Step 2 of run_aroma, feature_spatial(melodic_ics_file_mni): the file must
\* exist, then zsums is called on it four times and the fractions are taken.
FeatureSpatialStep ==
    /\ pc = "feature_spatial_step"
    /\ \E env \in FeatureSpatialEnvs(MixCols(mix_shape)) :
        LET z == zsums(MixCols(mix_shape), env)
            total == [k \in 1..Len(env.sums) |-> env.sums[k][1]]
            csf == [k \in 1..Len(env.sums) |-> env.sums[k][2]]
            edge == [k \in 1..Len(env.sums) |-> env.sums[k][3]]
            outside == [k \in 1..Len(env.sums) |-> env.sums[k][4]]
        IN  IF "melodic_IC_thr_MNI2mm.nii.gz" \notin tmp_files
            THEN /\ pc' = "error"
                 /\ error' = <<"feature_spatial", "AssertionError">>
                 /\ UNCHANGED <<abnormal, temps, sumVars, edge_fraction, csf_fraction>>
            ELSE IF z.err # "none"
            THEN /\ pc' = "error"
                 /\ error' = <<"zsums", z.err>>
                 /\ abnormal' = FirstAbnormal(abnormal, z.abnormal)
                 /\ temps' = temps \cup z.temps
                 /\ UNCHANGED <<sumVars, edge_fraction, csf_fraction>>
            ELSE /\ pc' = "feature_time_series_step"
                 /\ error' = error
                 /\ abnormal' = FirstAbnormal(abnormal, z.abnormal)
                 /\ temps' = temps
                 /\ total_sum' = total /\ csf_sum' = csf
                 /\ edge_sum' = edge /\ outside_sum' = outside
                 /\ edge_fraction' = EdgeFractionOf(total, csf, edge, outside)
                 /\ csf_fraction' = CsfFractionOf(total, csf)
    /\ UNCHANGED <<inputVars, tmp_files, mix_shape, rp_shape, rng, ts_result, ts_calls>>
    /\ UNCHANGED <<max_rp_correl, hfc, motion_ic_indices, outVars>>
    /\ UNCHANGED dataVars

\* Step 2 of run_aroma,
\* feature_time_series(mix=mix, rparams=np.loadtxt(mc), seed=seed)
FeatureTimeSeriesStep ==
    /\ pc = "feature_time_series_step"
    /\ \E shape \in PipeRpShapes :
        LET r == feature_time_series(mix_shape, shape, seed, rng)
        IN  /\ rp_shape' = shape
            /\ rng' = r.rng
            /\ ts_result' = IF r.err = "none" THEN "scores" ELSE r.err
            /\ IF r.err = "none"
               THEN /\ max_rp_correl' \in [1..MixCols(mix_shape) -> TsScoreValues]
                    /\ pc' = "feature_frequency"
                    /\ error' = error
               ELSE /\ max_rp_correl' = max_rp_correl
                    /\ pc' = "error"
                    /\ error' = <<"feature_time_series", r.err>>
    /\ ts_calls' = ts_calls + 1
    /\ UNCHANGED <<inputVars, temps, tmp_files, abnormal, mix_shape>>
    /\ UNCHANGED <<sumVars, edge_fraction, hfc, csf_fraction>>
    /\ UNCHANGED <<motion_ic_indices, outVars>>
    /\ UNCHANGED dataVars

\* the spectrum of a component in the melodic_FTmix of a run
PipeFtColumns == {<<1, 0, 0>>, <<1, 1, 2>>}

\* Step 2 of run_aroma, feature_frequency(ftmix, t_r=t_r).  ftmix is the
\* np.loadtxt of melodic_FTmix that run_ica returned, a column per component;
\* it is read here and nowhere else, so the run draws it here.
FeatureFrequencyStep ==
    /\ pc = "feature_frequency"
    /\ \E cols \in [1..MixCols(mix_shape) -> PipeFtColumns] :
        LET ft == LoadColumns(cols, 3)
            r == feature_frequency(ft, t_r)
        IN  /\ ftmix' = ft
            /\ IF r.err = "none"
               THEN /\ hfc' = r.hfc
                    /\ pc' = "classification_step"
                    /\ error' = error
               ELSE /\ hfc' = hfc
                    /\ pc' = "error"
                    /\ error' = <<"feature_frequency", r.err>>
    /\ UNCHANGED <<inputVars, temps, tmp_files, abnormal, tsVars, sumVars>>
    /\ UNCHANGED <<max_rp_correl, edge_fraction, csf_fraction>>
    /\ UNCHANGED <<motion_ic_indices, outVars>>
    /\ UNCHANGED <<mix, rparams, rp_model, chosen_rows, max_correls>>
    /\ UNCHANGED <<ts_subsets, ts_log>>

\* Step 2 of run_aroma, classification
ClassificationStep ==
    /\ pc = "classification_step"
    /\ LET r == classification(max_rp_correl, edge_fraction, hfc, csf_fraction)
       IN  /\ motion_ic_indices' = r.indices
           /\ IF r.err = "none"
              THEN pc' = "denoising" /\ error' = error
              ELSE pc' = "error" /\ error' = <<"classification", r.err>>
    /\ UNCHANGED <<inputVars, temps, tmp_files, abnormal, tsVars, sumVars>>
    /\ UNCHANGED <<scoreVars, outVars>>
    /\ UNCHANGED dataVars

\* Step 3 of run_aroma with `elif` for the aggressive request
RequestedDenoisingElif(dtype) ==
    IF dtype \in {"nonaggr", "aggr", "both"}
    THEN IF dtype \in {"nonaggr", "both"}
         THEN <<[outfile |-> "denoised_func_data_nonaggr.nii.gz",
                 aggressive |-> FALSE]>>
         ELSE <<[outfile |-> "denoised_func_data_aggr.nii.gz",
                 aggressive |-> TRUE]>>
    ELSE <<>>

\* Step 3 of run_aroma: the calls of denoising a denoise_type asks for, in
\* the order they are made
RequestedDenoising(dtype) ==
    IF dtype \in {"nonaggr", "aggr", "both"}
    THEN (IF dtype \in {"nonaggr", "both"}
          THEN <<[outfile |-> "denoised_func_data_nonaggr.nii.gz",
                  aggressive |-> FALSE]>>
          ELSE <<>>)
         \o
         (IF dtype \in {"aggr", "both"}
          THEN <<[outfile |-> "denoised_func_data_aggr.nii.gz",
                  aggressive |-> TRUE]>>
          ELSE <<>>)
    ELSE <<>>

\* A text is the sequence of its characters.
DigitChars == <<"0", "1", "2", "3", "4", "5", "6", "7", "8", "9">>

\* the decimal digits of a natural number
RECURSIVE Decimal(_)
Decimal(n) ==
    IF n < 10 THEN <<DigitChars[n + 1]>>
    ELSE Decimal(n \div 10) \o <<DigitChars[(n % 10) + 1]>>

\* '%d' % n, n a natural number
FormatD(n) == Decimal(n)

\* '%.0f' % x, x a fraction that is not negative: x as a float, rounded to
\* the nearest whole number, a half to the even one
FormatF0(x) ==
    LET q == x[1] \div x[2]
        r == x[1] % x[2]
    IN  Decimal(IF 2 * r > x[2] \/ (2 * r = x[2] /\ q % 2 = 1)
                THEN q + 1 ELSE q)

\* ','.join(parts)
RECURSIVE Join(_)
Join(parts) ==
    IF Len(parts) = 0 THEN <<>>
    ELSE IF Len(parts) = 1 THEN parts[1]
    ELSE parts[1] \o <<",">> \o Join(Tail(parts))

\* the index list with the indices as they are, not one more
IndexListZeroBased(indices) ==
    Join([k \in 1..Len(indices) |-> FormatD(indices[k])])

\* denoising: ','.join(['%d' % (i+1) for i in denoise_indices])
IndexList(indices) ==
    Join([k \in 1..Len(indices) |-> FormatD(indices[k] + 1)])

\* save_classification:
\* ','.join(['%.0f' % (idx+1) for idx in motion_ic_indices])
MotionIcsLine(motion) ==
    Join([k \in 1..Len(motion) |-> FormatF0(Frac(motion[k] + 1, 1))])

NoDenoisingNotice ==
    "denoising: None of the components was classified as motion, so no denoising was applied(a copy of the input file has been made)."

\* denoising that hands every index set, the empty one too, to fsl_regfilt
denoisingAlwaysFilters(indices, outfile, aggressive, exit) ==
    [regfilt |-> <<[filter |-> IndexList(indices), out |-> outfile,
                    aggressive |-> aggressive]>>,
     abnormal |-> Failed("fsl_regfilt", exit),
     warnings |-> IF Len(indices) > 0 THEN <<>> ELSE <<NoDenoisingNotice>>,
     copies |-> <<>>,
     temps |-> {}]

\* denoising without the os.unlink(melmix_file) at its end
denoisingKeepsDesign(indices, outfile, aggressive, exit) ==
    [regfilt |-> IF Len(indices) > 0
                 THEN <<[filter |-> IndexList(indices), out |-> outfile,
                         aggressive |-> aggressive]>>
                 ELSE <<>>,
     abnormal |-> IF Len(indices) > 0 THEN Failed("fsl_regfilt", exit) ELSE <<>>,
     warnings |-> IF Len(indices) > 0 THEN <<>> ELSE <<NoDenoisingNotice>>,
     copies |-> IF Len(indices) > 0 THEN <<>> ELSE <<outfile>>,
     temps |-> {"denoising"}]

\* denoising(infile, outfile, mix, denoise_indices, aggressive): infile
\* exists, outfile can be created and mix has rank 2.  fsl_regfilt ends with
\* the given exit status, which is not read.  The temporary file of the
\* design is made at the start (mkstemp) and removed at the end (os.unlink),
\* on both branches.  The outcome: the calls of fsl_regfilt, the warnings
\* logged, the copies of infile made and the temporary files left behind.
denoising(indices, outfile, aggressive, exit) ==
    IF Len(indices) > 0
    THEN [regfilt |-> <<[filter |-> IndexList(indices), out |-> outfile,
                         aggressive |-> aggressive]>>,
          abnormal |-> Failed("fsl_regfilt", exit),
          warnings |-> <<>>,
          copies |-> <<>>,
          temps |-> {}]
    ELSE [regfilt |-> <<>>,
          abnormal |-> <<>>,
          warnings |-> <<NoDenoisingNotice>>,
          copies |-> <<outfile>>,
          temps |-> {}]

\* Step 3 of run_aroma: the next call of denoising
Denoise ==
    /\ pc = "denoising"
    /\ Len(denoise_log) < Len(RequestedDenoising(denoise_type))
    /\ \E exit \in ExitCodes :
        LET req == RequestedDenoising(denoise_type)[Len(denoise_log) + 1]
            o == denoising(motion_ic_indices, req.outfile, req.aggressive, exit)
        IN  /\ denoise_log' = Append(denoise_log,
                   [outfile |-> req.outfile, aggressive |-> req.aggressive,
                    indices |-> motion_ic_indices])
            /\ regfilt_log' = regfilt_log \o o.regfilt
            /\ warnings' = warnings \o o.warnings
            /\ copies' = copies \o o.copies
            /\ abnormal' = FirstAbnormal(abnormal, o.abnormal)
            /\ temps' = temps \cup o.temps
    /\ UNCHANGED <<pc, error, inputVars, tmp_files>>
    /\ UNCHANGED <<mix_shape, rp_shape, rng, ts_result, ts_calls>>
    /\ UNCHANGED <<sumVars, scoreVars, motion_ic_indices, files>>
    /\ UNCHANGED dataVars

\* run_aroma after Step 3: shutil.rmtree(tempdir)
RemoveTempdir ==
    /\ pc = "denoising"
    /\ Len(denoise_log) = Len(RequestedDenoising(denoise_type))
    /\ temps' = temps \ {"run_aroma"}
    /\ tmp_files' = {}
    /\ pc' = "verbose"
    /\ UNCHANGED <<error, inputVars, abnormal>>
    /\ UNCHANGED <<tsVars, sumVars, scoreVars, motion_ic_indices, outVars>>
    /\ UNCHANGED dataVars

\* run_aroma: `if verbose:`; verbose is read here and nowhere else
TestVerbose ==
    /\ pc = "verbose"
    /\ \E verbose \in BOOLEAN :
        pc' = IF verbose THEN "save_classification" ELSE "done"
    /\ UNCHANGED <<error, inputVars, temps, tmp_files, abnormal>>
    /\ UNCHANGED <<tsVars, sumVars, scoreVars, motion_ic_indices, outVars>>
    /\ UNCHANGED dataVars

\* max(s) of a non-empty sequence of numbers
Max(s) == CHOOSE x \in {s[k] : k \in 1..Len(s)} :
              \A y \in {s[k] : k \in 1..Len(s)} : y <= x

\* save_classification(outdir, max_rp_correl, edge_fraction, hfc,
\* csf_fraction, motion_ic_indices), outdir a writable directory.  The
\* outcome: the exception raised and the files written, in order; a file is
\* the sequence of its lines.  The line of classified_motion_ICs.txt is a
\* text, a row of a table the tuple or record of its fields
\* (the header of the overview is left out).
save_classification(rp, ef, hf, cf, motion) ==
    IF Len(motion) = 0
    THEN \* max() of an empty sequence
         [err |-> "ValueError", files |-> <<>>]
    ELSE IF ~(Max(motion) < Len(rp) /\ Len(rp) = Len(ef) /\ Len(ef) = Len(hf)
              /\ Len(hf) = Len(cf))
    THEN [err |-> "AssertionError", files |-> <<>>]
    ELSE LET is_motion == [k \in 1..Len(cf) |-> InSeq(k - 1, motion)]
         IN  [err |-> "none",
              files |->
                << [name |-> "feature_scores.txt",
                    lines |-> [k \in 1..Len(rp) |-> <<rp[k], ef[k], hf[k], cf[k]>>]],
                   [name |-> "classified_motion_ICs.txt",
                    lines |-> IF Len(motion) > 0 THEN <<MotionIcsLine(motion)>>
                              ELSE <<>>],
                   [name |-> "classification_overview.txt",
                    lines |-> [k \in 1..Len(cf) |->
                                  [ic |-> k, motion |-> is_motion[k],
                                   scores |-> <<rp[k], ef[k], hf[k], cf[k]>>]]] >>]

\* run_aroma: save_classification(...)
SaveClassification ==
    /\ pc = "save_classification"
    /\ LET o == save_classification(max_rp_correl, edge_fraction, hfc,
                                    csf_fraction, motion_ic_indices)
       IN  /\ files' = files \o o.files
           /\ IF o.err = "none"
              THEN pc' = "saved" /\ error' = error
              ELSE pc' = "error" /\ error' = <<"save_classification", o.err>>
    /\ UNCHANGED <<inputVars, temps, tmp_files, abnormal>>
    /\ UNCHANGED <<tsVars, sumVars, scoreVars, motion_ic_indices>>
    /\ UNCHANGED <<denoise_log, regfilt_log, warnings, copies>>
    /\ UNCHANGED dataVars

RunNext ==
    \/ RunAromaEntry
    \/ RunIca
    \/ RegisterToMni
    \/ FeatureSpatialStep
    \/ FeatureTimeSeriesStep
    \/ FeatureFrequencyStep
    \/ ClassificationStep
    \/ Denoise
    \/ RemoveTempdir
    \/ TestVerbose
    \/ SaveClassification

Spec == RunInit /\ [][RunNext]_vars

----------------------------------------------------------------------------
(* Claims about a run of run_aroma *)

\* Step 3 of run_aroma is over
PastStep3 ==
    \/ pc \in {"verbose", "save_classification", "saved", "done"}
    \/ pc = "error" /\ error # NoError /\ error[1] = "save_classification"

\* save_classification has been called and has ended
SaveEnded ==
    \/ pc = "saved"
    \/ pc = "error" /\ error # NoError /\ error[1] = "save_classification"

\* C3: the invocations of denoising in a run are fixed by the denoise mode:
\* 'none' makes none; 'nonaggr' exactly one with aggressive=False; 'aggr'
\* exactly one with aggressive=True; 'both' exactly two, the non-aggressive
\* then the aggressive, both with the motion index set of the run and
\* writing to two different output files.  None is made before Step 3.
C3_DenoisingByMode ==
    /\ (~PastStep3 /\ pc # "denoising") => denoise_log = <<>>
    /\ PastStep3 =>
        /\ denoise_type = "none" => Len(denoise_log) = 0
        /\ denoise_type = "nonaggr" =>
            /\ Len(denoise_log) = 1
            /\ denoise_log[1].aggressive = FALSE
        /\ denoise_type = "aggr" =>
            /\ Len(denoise_log) = 1
            /\ denoise_log[1].aggressive = TRUE
        /\ denoise_type = "both" =>
            /\ Len(denoise_log) = 2
            /\ denoise_log[1].aggressive = FALSE
            /\ denoise_log[2].aggressive = TRUE
            /\ denoise_log[1].outfile # denoise_log[2].outfile
        /\ \A k \in 1..Len(denoise_log) :
            denoise_log[k].indices = motion_ic_indices

\* C3 witness: a run in mode 'both' with a non-empty motion set has ended,
\* its classification saved, after two invocations of denoising.
C3_Witness ==
    /\ pc = "saved"
    /\ denoise_type = "both"
    /\ motion_ic_indices # <<>>
    /\ Len(denoise_log) = 2

\* C4 as stated: with an empty motion index set and a mode that requests
\* filtering, every requested denoising step issues a request to the
\* regression-filter tool, with an empty index set, and a notice that no
\* component was removed is recorded; two requests in mode 'both'.
C4_EmptySetStillRequests ==
    (PastStep3 /\ motion_ic_indices = <<>>
        /\ denoise_type \in {"nonaggr", "aggr", "both"}) =>
        /\ Len(regfilt_log) = (IF denoise_type = "both" THEN 2 ELSE 1)
        /\ \A k \in 1..Len(regfilt_log) : regfilt_log[k].filter = <<>>
        /\ warnings # <<>>

\* C4 amended: with an empty motion index set and a mode that requests
\* filtering, no request reaches the regression-filter tool; every requested
\* denoising step logs the warning that no component was classified as motion
\* and copies the input file to its output file; in mode 'both' that is two
\* warnings and two copies, and no filter request.
C4_EmptySetCopiesWithNotice ==
    (PastStep3 /\ motion_ic_indices = <<>>
        /\ denoise_type \in {"nonaggr", "aggr", "both"}) =>
        /\ regfilt_log = <<>>
        /\ Len(warnings) = (IF denoise_type = "both" THEN 2 ELSE 1)
        /\ \A k \in 1..Len(warnings) : warnings[k] = NoDenoisingNotice
        /\ Len(copies) = Len(warnings)
        /\ \A k \in 1..Len(copies) : copies[k] = denoise_log[k].outfile

\* C4 witness: Step 3 is over in mode 'both' with an empty motion set, two
\* warnings logged and no filter request made.
C4_Witness ==
    /\ PastStep3
    /\ denoise_type = "both"
    /\ motion_ic_indices = <<>>
    /\ Len(warnings) = 2
    /\ regfilt_log = <<>>

\* C5: for every motion index set within 0..N-1, the empty set included,
\* save_classification completes without error and writes its three files;
\* when the set is empty the motion-index file holds an empty line and every
\* component is flagged non-motion in the overview.
C5_SaveCompletes ==
    SaveEnded =>
        /\ error = NoError
        /\ Len(files) = 3
        /\ motion_ic_indices = <<>> =>
            /\ files[2].lines = << <<>> >>
            /\ \A k \in 1..Len(files[3].lines) : ~files[3].lines[k].motion

\* C6: once an external tool has exited abnormally the run ends in a fatal
\* error: it does not complete and no classification is saved.
C6_FailureIsFatal ==
    abnormal # "none" =>
        /\ pc \notin {"saved", "done"}
        /\ files = <<>>

\* C8: a t_r outside the open interval (0.5, 10), 0.5 included, is rejected
\* by the entry checks of run_aroma, before any temporary directory is made
\* and before any later step runs.
C8_RejectedAtEntry ==
    (t_r <= 5 \/ t_r >= 100) =>
        /\ pc \in {"run_aroma", "error"}
        /\ temps = {}
        /\ pc = "error" => error = <<"run_aroma", "AssertionError">>

\* parse_cmdline: the choices of -t/--denoisetype
CliDenoiseTypes == {"no", "nonaggr", "aggr", "both"}

\* C14: every denoising strategy the command line accepts is accepted by the
\* entry checks of run_aroma (dim and t_r being in range); a run given 'no'
\* that reaches the end of Step 3 has made no filter request, and one that
\* ends with its classification saved has made none either.
C14_CliStrategiesAccepted ==
    (denoise_type \in CliDenoiseTypes /\ 0 <= dim /\ dim < 100
        /\ 5 <= t_r /\ t_r < 100) =>
        /\ error # <<"run_aroma", "AssertionError">>
        /\ (denoise_type = "no" /\ PastStep3) =>
            (denoise_log = <<>> /\ regfilt_log = <<>>)

\* the number a text of decimal digits stands for
RECURSIVE ParseNat(_)
ParseNat(text) ==
    IF Len(text) = 0 THEN 0
    ELSE 10 * ParseNat(SubSeq(text, 1, Len(text) - 1))
         + (CHOOSE d \in 0..9 : DigitChars[d + 1] = text[Len(text)])

\* the numbers of a comma-separated text that is not empty, in order
RECURSIVE ParseList(_)
ParseList(text) ==
    IF \E k \in 1..Len(text) : text[k] = ","
    THEN LET c == CHOOSE k \in 1..Len(text) :
                      text[k] = "," /\ \A j \in 1..(k - 1) : text[j] # ","
         IN  <<ParseNat(SubSeq(text, 1, c - 1))>>
             \o ParseList(SubSeq(text, c + 1, Len(text)))
    ELSE <<ParseNat(text)>>

\* every character of the text is a digit or a comma, and no number is empty
WellFormedList(text) ==
    /\ \A k \in 1..Len(text) : text[k] = "," \/ InSeq(text[k], DigitChars)
    /\ Len(text) > 0 /\ text[1] # "," /\ text[Len(text)] # ","
    /\ \A k \in 1..(Len(text) - 1) : ~(text[k] = "," /\ text[k + 1] = ",")

\* C15: when a run with a non-empty classification result has saved its
\* classification, the line of classified_motion_ICs.txt and the filter list
\* of every call of fsl_regfilt are the same text: comma-separated numbers,
\* ascending, the numbers i+1 for the indices i of the result, each once; and
\* the overview flags component i+1 as motion exactly when i is in the result.
C15_SameIndexList ==
    (pc = "saved" /\ motion_ic_indices # <<>>) =>
        LET line == files[2].lines[1]
            numbers == ParseList(line)
        IN  /\ files[2].name = "classified_motion_ICs.txt"
            /\ Len(files[2].lines) = 1
            /\ \A k \in 1..Len(regfilt_log) : regfilt_log[k].filter = line
            /\ WellFormedList(line)
            /\ \A k \in 1..(Len(numbers) - 1) : numbers[k] < numbers[k + 1]
            /\ {numbers[k] : k \in 1..Len(numbers)}
                   = {motion_ic_indices[k] + 1 : k \in 1..Len(motion_ic_indices)}
            /\ files[3].name = "classification_overview.txt"
            /\ Len(files[3].lines) = Len(csf_fraction)
            /\ \A k \in 1..Len(files[3].lines) :
                /\ files[3].lines[k].ic = k
                /\ files[3].lines[k].motion <=> InSeq(k - 1, motion_ic_indices)

\* C15 witness: a run in mode 'both' that classified both of two components
\* as motion has saved its classification after two calls of fsl_regfilt,
\* each given the list "1,2".
C15_Witness ==
    /\ pc = "saved"
    /\ denoise_type = "both"
    /\ motion_ic_indices = <<0, 1>>
    /\ Len(regfilt_log) = 2
    /\ regfilt_log[2].filter = <<"1", ",", "2">>
    /\ files[2].lines = << <<"1", ",", "2">> >>

\* run_ica has been called and has ended
RunIcaEnded ==
    \/ pc \notin {"run_aroma", "run_ica", "error"}
    \/ pc = "error" /\ error # NoError /\ error[1] # "run_aroma"

\* C17: when run_ica is given a directory that passes is_valid_melodic_dir,
\* melodic is not run, the copy of the four entries into the working
\* directory succeeds (no exception comes of it) and the run goes on with
\* the copied results: run_ica leaves no working directory behind.
C17_ValidMelodicDirReused ==
    (RunIcaEnded /\ is_valid_melodic_dir(melodic_dir)) =>
        /\ abnormal # "melodic"
        /\ error # <<"run_ica", "OSError">>
        /\ "run_ica" \notin temps

\* run_aroma has returned
CompletedNormally == pc \in {"saved", "done"}

\* the steps of run_aroma that are given a file inside its temporary
\* directory, to write it (run_ica, register_to_mni) or to read it
\* (register_to_mni, feature_spatial), have not all ended
TempdirInUse == pc \in {"run_ica", "register_to_mni", "feature_spatial_step"}

\* C18: when run_aroma has completed normally, whatever the denoise mode and
\* the motion set, no temporary directory or file of the run is left: not
\* the directory of run_aroma nor a file in it, not the working directory of
\* run_ica, not a temporary file of zsums or of denoising; and the directory
\* of run_aroma is there as long as a step that reads a file in it is to end.
C18_TemporariesRemoved ==
    /\ CompletedNormally => (temps = {} /\ tmp_files = {})
    /\ TempdirInUse => "run_aroma" \in temps
    /\ tmp_files # {} => "run_aroma" \in temps

\* C18 witness: a run in mode 'aggr' with an empty motion set has completed
\* without saving, after denoising made its copy, and nothing temporary is
\* left.
C18_Witness ==
    /\ pc = "done"
    /\ denoise_type = "aggr"
    /\ motion_ic_indices = <<>>
    /\ Len(copies) = 1
    /\ temps = {} /\ tmp_files = {}

====
